---- MODULE Spec2Model ----
(***************************************************************************)
(* BlackboxPlayer/Utilities/BridgingHeader.h, read as the preprocessor     *)
(* reads it inside one translation unit.                                   *)
(*                                                                         *)
(* The file is nine directives: an include guard (#ifndef / #define /      *)
(* #endif) around six #import directives of FFmpeg headers.  The state is  *)
(* what the preprocessor keeps while it works through a translation unit:  *)
(* the include stack, the names made visible so far, and the table of      *)
(* files that #import has already read (a file named by #import is read    *)
(* at most once per translation unit).                                     *)
(*                                                                         *)
(* The text of the six FFmpeg headers is not part of the repository.  An   *)
(* imported header is therefore opaque: it makes its own declarations      *)
(* visible when it ends, and while it is being read it may include         *)
(* BridgingHeader.h again.  The translation unit itself may include        *)
(* BridgingHeader.h any number of times (bounded by MaxRuns), may have     *)
(* imported any of the FFmpeg headers beforehand, and may have defined     *)
(* the guard macro beforehand.                                             *)
(***************************************************************************)
EXTENDS Naturals, Sequences, FiniteSets

\* The number of times BridgingHeader.h is entered in the translation unit.
MaxRuns == 3

ThisFile == "BlackboxPlayer/Utilities/BridgingHeader.h"

\* What stands for "defined before the file was processed".
Host == "translation unit"

Directive(op, arg) == [op |-> op, arg |-> arg]

\* A guard whose #define misspells the name tested by #ifndef.
HeaderGuardTypo ==
    << Directive("ifndef", "BridgingHeader_h"),
       Directive("define", "BridgingHeader_H"),
       Directive("import", "libavcodec/avcodec.h"),
       Directive("import", "libavformat/avformat.h"),
       Directive("import", "libavutil/avutil.h"),
       Directive("import", "libavutil/imgutils.h"),
       Directive("import", "libswscale/swscale.h"),
       Directive("import", "libswresample/swresample.h"),
       Directive("endif", "BridgingHeader_h") >>

\* The guard macro defined after the imports instead of before them.
HeaderGuardLast ==
    << Directive("ifndef", "BridgingHeader_h"),
       Directive("import", "libavcodec/avcodec.h"),
       Directive("import", "libavformat/avformat.h"),
       Directive("import", "libavutil/avutil.h"),
       Directive("import", "libavutil/imgutils.h"),
       Directive("import", "libswscale/swscale.h"),
       Directive("import", "libswresample/swresample.h"),
       Directive("define", "BridgingHeader_h"),
       Directive("endif", "BridgingHeader_h") >>

\* The resampler import left out.
HeaderMissingImport ==
    << Directive("ifndef", "BridgingHeader_h"),
       Directive("define", "BridgingHeader_h"),
       Directive("import", "libavcodec/avcodec.h"),
       Directive("import", "libavformat/avformat.h"),
       Directive("import", "libavutil/avutil.h"),
       Directive("import", "libavutil/imgutils.h"),
       Directive("import", "libswscale/swscale.h"),
       Directive("endif", "BridgingHeader_h") >>

\* The guard tested but never defined.
HeaderNoDefine ==
    << Directive("ifndef", "BridgingHeader_h"),
       Directive("import", "libavcodec/avcodec.h"),
       Directive("import", "libavformat/avformat.h"),
       Directive("import", "libavutil/avutil.h"),
       Directive("import", "libavutil/imgutils.h"),
       Directive("import", "libswscale/swscale.h"),
       Directive("import", "libswresample/swresample.h"),
       Directive("endif", "BridgingHeader_h") >>

\* The directives of BridgingHeader.h, in file order (lines 8, 9, 12-17, 19).
Header ==
    << Directive("ifndef", "BridgingHeader_h"),
       Directive("define", "BridgingHeader_h"),
       Directive("import", "libavcodec/avcodec.h"),
       Directive("import", "libavformat/avformat.h"),
       Directive("import", "libavutil/avutil.h"),
       Directive("import", "libavutil/imgutils.h"),
       Directive("import", "libswscale/swscale.h"),
       Directive("import", "libswresample/swresample.h"),
       Directive("endif", "BridgingHeader_h") >>

\* The files the #import directives of the file name.
ImportedFiles == { Header[i].arg : i \in { j \in 1..Len(Header) : Header[j].op = "import" } }

VARIABLES
    stack,      \* include stack, innermost file last
    symbols,    \* names visible in the translation unit, each with its origin
    onceOnly,   \* files #import has read: never read again
    started,    \* how many times BridgingHeader.h has been entered
    done,       \* the finished processings of BridgingHeader.h, in order of finishing
    afterFirst  \* <<>> until the first processing ends, then what it left visible

vars == << stack, symbols, onceOnly, started, done, afterFirst >>

Macro(name, origin) == [kind |-> "macro", name |-> name, definedIn |-> origin]

\* The declarations of an imported header: opaque, all of them defined by it.
Declarations(h) == [kind |-> "declarations", name |-> h, definedIn |-> h]

Defined(name) == \E s \in symbols : s.kind = "macro" /\ s.name = name

\* A frame of the include stack.  For BridgingHeader.h: pc is the index of
\* the next directive, run the number of this processing, guarded whether
\* the tested macro was defined when it began, acts what it has done.
FileFrame(run) ==
    [file |-> ThisFile, pc |-> 1, run |-> run,
     guarded |-> Defined(Header[1].arg), acts |-> << >>]

ImportedFrame(h) ==
    [file |-> h, pc |-> 0, run |-> 0, guarded |-> FALSE, acts |-> << >>]

Top == stack[Len(stack)]

Pop == SubSeq(stack, 1, Len(stack) - 1)

ReplaceTop(f) == [stack EXCEPT ![Len(stack)] = f]

\* A false #ifndef that fails to skip its group.
NoSkip(pc) == pc + 1

\* Where a false #ifndef at pc resumes: the next #endif.
MatchingEndif(pc) ==
    CHOOSE j \in (pc + 1)..Len(Header) :
        /\ Header[j].op = "endif"
        /\ \A k \in (pc + 1)..(j - 1) : Header[k].op # "endif"

AtDirective(op) ==
    /\ stack # << >>
    /\ Top.file = ThisFile
    /\ Top.pc \in 1..Len(Header)
    /\ Header[Top.pc].op = op

Init ==
    /\ stack = << >>
    /\ started = 0
    /\ done = << >>
    /\ afterFirst = << >>
    /\ \E pre \in SUBSET ImportedFiles, predefined \in BOOLEAN :
        /\ onceOnly = pre
        /\ symbols = { Declarations(h) : h \in pre }
                     \cup (IF predefined
                           THEN { Macro(Header[1].arg, Host) }
                           ELSE { })

\* The translation unit includes BridgingHeader.h.
Include ==
    /\ stack = << >>
    /\ started < MaxRuns
    /\ started' = started + 1
    /\ stack' = << FileFrame(started + 1) >>
    /\ UNCHANGED << symbols, onceOnly, done, afterFirst >>

\* An imported header, while being read, includes BridgingHeader.h.
ReInclude ==
    /\ stack # << >>
    /\ Top.file # ThisFile
    /\ started < MaxRuns
    /\ started' = started + 1
    /\ stack' = Append(stack, FileFrame(started + 1))
    /\ UNCHANGED << symbols, onceOnly, done, afterFirst >>

\* Line 8: #ifndef BridgingHeader_h
DoIfndef ==
    /\ AtDirective("ifndef")
    /\ stack' = ReplaceTop([Top EXCEPT !.pc =
                    IF Defined(Header[Top.pc].arg)
                    THEN MatchingEndif(Top.pc)
                    ELSE Top.pc + 1])
    /\ UNCHANGED << symbols, onceOnly, started, done, afterFirst >>

\* Line 9: #define BridgingHeader_h
DoDefine ==
    /\ AtDirective("define")
    /\ symbols' = symbols \cup { Macro(Header[Top.pc].arg, ThisFile) }
    /\ stack' = ReplaceTop([Top EXCEPT
                    !.pc = @ + 1,
                    !.acts = Append(@, << "define", Header[Top.pc].arg >>)])
    /\ UNCHANGED << onceOnly, started, done, afterFirst >>

\* Lines 12-17: #import <header>.  The header is read unless #import has
\* read it before in this translation unit.
DoImport ==
    /\ AtDirective("import")
    /\ LET h == Header[Top.pc].arg
           f == [Top EXCEPT !.pc = @ + 1,
                            !.acts = Append(@, << "import", h >>)]
       IN  IF h \in onceOnly
           THEN /\ stack' = ReplaceTop(f)
                /\ onceOnly' = onceOnly
           ELSE /\ stack' = Append(ReplaceTop(f), ImportedFrame(h))
                /\ onceOnly' = onceOnly \cup { h }
    /\ UNCHANGED << symbols, started, done, afterFirst >>

\* The end of an imported header: its declarations are visible from here on.
EndOfImported ==
    /\ stack # << >>
    /\ Top.file # ThisFile
    /\ symbols' = symbols \cup { Declarations(Top.file) }
    /\ stack' = Pop
    /\ UNCHANGED << onceOnly, started, done, afterFirst >>

\* Line 19: #endif
DoEndif ==
    /\ AtDirective("endif")
    /\ stack' = ReplaceTop([Top EXCEPT !.pc = @ + 1])
    /\ UNCHANGED << symbols, onceOnly, started, done, afterFirst >>

\* The end of BridgingHeader.h: back to the including file.
EndOfFile ==
    /\ stack # << >>
    /\ Top.file = ThisFile
    /\ Top.pc = Len(Header) + 1
    /\ stack' = Pop
    /\ done' = Append(done, [run |-> Top.run, guarded |-> Top.guarded,
                             acts |-> Top.acts])
    /\ afterFirst' = IF Top.run = 1
                     THEN << [symbols |-> symbols, onceOnly |-> onceOnly] >>
                     ELSE afterFirst
    /\ UNCHANGED << symbols, onceOnly, started >>

Next ==
    \/ Include
    \/ ReInclude
    \/ DoIfndef
    \/ DoDefine
    \/ DoImport
    \/ EndOfImported
    \/ DoEndif
    \/ EndOfFile

Spec == Init /\ [][Next]_vars

(***************************************************************************)
(* Properties                                                              *)
(***************************************************************************)

\* The six FFmpeg headers, as the specification lists them.
SixHeaders ==
    { "libavcodec/avcodec.h", "libavformat/avformat.h", "libavutil/avutil.h",
      "libavutil/imgutils.h", "libswscale/swscale.h", "libswresample/swresample.h" }

\* What a processing that finds the guard undefined does, in order.
ExpectedActs ==
    << << "define", "BridgingHeader_h" >>,
       << "import", "libavcodec/avcodec.h" >>,
       << "import", "libavformat/avformat.h" >>,
       << "import", "libavutil/avutil.h" >>,
       << "import", "libavutil/imgutils.h" >>,
       << "import", "libswscale/swscale.h" >>,
       << "import", "libswresample/swresample.h" >> >>

IsImport(a) == a[1] = "import"

ImportsOf(acts) == SelectSeq(acts, IsImport)

ImportNames(acts) == { ImportsOf(acts)[k][2] : k \in 1..Len(ImportsOf(acts)) }

IsPrefix(s, t) == Len(s) <= Len(t) /\ s = SubSeq(t, 1, Len(s))

\* The frames of BridgingHeader.h on the include stack.
FileFrames == { k \in 1..Len(stack) : stack[k].file = ThisFile }

\* C1: a processing of BridgingHeader.h that begins with BridgingHeader_h
\* undefined issues six imports, of exactly the six FFmpeg headers
\* avcodec, avformat, avutil, imgutils, swscale and swresample, and of no
\* other file; when it ends each of the six has been read and its
\* declarations are visible.
C1_ImportsExactlySix ==
    \A i \in 1..Len(done) :
        ~done[i].guarded =>
            /\ ImportNames(done[i].acts) = SixHeaders
            /\ Len(ImportsOf(done[i].acts)) = 6
            /\ SixHeaders \subseteq onceOnly
            /\ \A h \in SixHeaders : Declarations(h) \in symbols

\* C1 witness: a processing that began with the guard undefined has ended.
C1_Witness ==
    \E i \in 1..Len(done) : ~done[i].guarded /\ done[i].run = 1

\* C2 (as stated): every name that becomes visible comes from one of the
\* six imported FFmpeg headers, none from BridgingHeader.h itself.
C2_Original ==
    [][\A s \in symbols' \ symbols : s.definedIn \in SixHeaders]_vars

\* C2 (amended): every name that becomes visible comes from one of the six
\* imported FFmpeg headers, except the include-guard macro BridgingHeader_h,
\* which BridgingHeader.h defines itself.
C2_OnlyGuardIsOwn ==
    [][\A s \in symbols' \ symbols :
          \/ s.definedIn \in SixHeaders
          \/ s = Macro("BridgingHeader_h", ThisFile)]_vars

\* C2 witness: the file has defined its guard macro and is importing a
\* header whose declarations are not visible yet.
C2_Witness ==
    /\ Len(stack) = 2
    /\ stack[1].file = ThisFile
    /\ stack[2].file \in SixHeaders
    /\ Declarations(stack[2].file) \notin symbols
    /\ Macro("BridgingHeader_h", ThisFile) \in symbols

\* C3 (as stated): every processing of the file performs the same actions,
\* whatever the conditions and whatever earlier processing left behind.
C3_Original ==
    \A i, j \in 1..Len(done) : done[i].acts = done[j].acts

\* C3 (amended): what a processing of the file performs depends on one
\* condition only, whether BridgingHeader_h is defined when it begins: if it
\* is not, the processing defines BridgingHeader_h and issues the six
\* imports in file order; if it is, the processing performs nothing.
C3_ActsDependOnGuardOnly ==
    \A i \in 1..Len(done) :
        done[i].acts = IF done[i].guarded THEN << >> ELSE ExpectedActs

\* C3 witness: one processing that found the guard undefined and a later
\* one that found it defined have both ended.
C3_Witness ==
    \E i, j \in 1..Len(done) :
        /\ ~done[i].guarded
        /\ done[j].guarded
        /\ done[i].run < done[j].run

\* C6: every processing after the first performs nothing (no import, no
\* definition), and whenever the translation unit is between inclusions
\* the imported headers and the visible names are those the first
\* processing left.
C6_Idempotent ==
    /\ \A i \in 1..Len(done) : done[i].run > 1 => done[i].acts = << >>
    /\ \A k \in FileFrames : stack[k].run > 1 => stack[k].acts = << >>
    /\ (stack = << >> /\ afterFirst # << >>) =>
            /\ symbols = afterFirst[1].symbols
            /\ onceOnly = afterFirst[1].onceOnly

\* C6 witness: the first processing found the guard undefined, and a
\* second inclusion made after it ended has ended too.
C6_Witness ==
    /\ stack = << >>
    /\ \E i, j \in 1..Len(done) :
        /\ i < j
        /\ done[i].run = 1
        /\ ~done[i].guarded
        /\ done[j].run > 1

\* C7: a processing that finds the guard undefined defines BridgingHeader_h
\* first and then issues the imports in the order avcodec, avformat,
\* avutil, imgutils, swscale, swresample; so the guard is defined whenever
\* an imported header is being read, and an inclusion of BridgingHeader.h
\* reached from inside an imported header performs nothing.
C7_GuardBeforeImports ==
    /\ \A k \in FileFrames : IsPrefix(stack[k].acts, ExpectedActs)
    /\ \A i \in 1..Len(done) : IsPrefix(done[i].acts, ExpectedActs)
    /\ (\E k \in 1..Len(stack) : stack[k].file # ThisFile) =>
            Defined("BridgingHeader_h")
    /\ \A k \in FileFrames : k > 1 => stack[k].acts = << >>

\* C7 witness: BridgingHeader.h was included again from inside the last
\* imported header, and that inner processing has reached its end.
C7_Witness ==
    /\ Len(stack) = 3
    /\ stack[1].file = ThisFile
    /\ stack[1].acts = ExpectedActs
    /\ stack[2].file = "libswresample/swresample.h"
    /\ stack[3].file = ThisFile
    /\ stack[3].pc = Len(Header) + 1

====
